---- MODULE Spec2Model ----
(***************************************************************************)
(* Model of backend/shared/comparison.py: the ComparisonGraph pipeline     *)
(* run -> retrieve_contract -> compare_terms over a document store.        *)
(*                                                                         *)
(* Python values are tagged records so that Python truthiness ("not x",    *)
(* "if x") can be modelled as the interpreter evaluates it.  Strings are   *)
(* sequences of characters; a literal piece of an f-string is one element. *)
(***************************************************************************)
EXTENDS Integers, Sequences, FiniteSets, TLC

VARIABLES store, llm, pc, arg, state, response, error, prev

vars == <<store, llm, pc, arg, state, response, error, prev>>

---------------------------------------------------------------------------
(* Python values *)

None == [t |-> "None"]

PyStr(s) == [t |-> "str", s |-> s]

PyInt(n) == [t |-> "int", n |-> n]

PyBool(b) == [t |-> "bool", b |-> b]

PyDict(d) == [t |-> "dict", d |-> d]

EmptyDict == PyDict(<<>>)

\* bool(v) as Python computes it for the value kinds that occur here
Truthy(v) ==
    CASE v.t = "None" -> FALSE
      [] v.t = "str"  -> v.s # <<>>
      [] v.t = "int"  -> v.n # 0
      [] v.t = "bool" -> v.b
      [] v.t = "dict" -> DOMAIN v.d # {}
      [] OTHER        -> TRUE

\* dict.get(k, default)
Get(dv, k, default) == IF k \in DOMAIN dv.d THEN dv.d[k] ELSE default

---------------------------------------------------------------------------
(* Strings *)

LowerChar(c) ==
    CASE c = "A" -> "a"
      [] c = "B" -> "b"
      [] c = "N" -> "n"
      [] OTHER   -> c

\* str.lower()
Lower(s) == [i \in 1..Len(s) |-> LowerChar(s[i])]

IsSpace(c) == c \in {" ", "\n"}

RECURSIVE LStrip(_)
LStrip(s) == IF s # <<>> /\ IsSpace(Head(s)) THEN LStrip(Tail(s)) ELSE s

RECURSIVE RStrip(_)
RStrip(s) ==
    IF s # <<>> /\ IsSpace(s[Len(s)]) THEN RStrip(SubSeq(s, 1, Len(s) - 1)) ELSE s

\* str.strip()
Strip(s) == RStrip(LStrip(s))

\* a in b, for strings
IsSubstring(a, b) ==
    \E i \in 0..(Len(b) - Len(a)) : SubSeq(b, i + 1, i + Len(a)) = a

---------------------------------------------------------------------------
(* Documents of the store: extraction results as the upstream extraction   *)
(* leaves them.  A field is an evidence object {value, page}.              *)

Field(v, p) == PyDict([value |-> v, page |-> PyInt(p)])

NoValueField(p) == PyDict([page |-> PyInt(p)])

Extraction(doc_type, data) ==
    PyDict([doc_type |-> PyStr(<<doc_type>>), data |-> PyDict(data)])

\* sample strings
V   == <<"A", "b">>
PM  == <<"x", "a", "B">>
PM2 == <<"A", "B", " ", "x">>
PN  == <<"b", "a">>
T1  == <<"N", "b", " ">>
T2  == <<" ", "n", "b">>
T3  == <<"n", "a">>

VendorFields ==
    { <<>>,
      "vendor_name" :> NoValueField(1),
      "vendor_name" :> Field(PyStr(<<>>), 1),
      "vendor_name" :> Field(PyStr(V), 1) }

InvoiceTermsFields ==
    { <<>>,
      "payment_terms" :> NoValueField(1),
      "payment_terms" :> Field(None, 1),
      "payment_terms" :> Field(PyStr(<<>>), 1),
      "payment_terms" :> Field(PyStr(T1), 1) }

ContractTermsFields ==
    { <<>>,
      "payment_terms" :> NoValueField(2),
      "payment_terms" :> Field(None, 2),
      "payment_terms" :> Field(PyStr(<<>>), 2),
      "payment_terms" :> Field(PyStr(T2), 2),
      "payment_terms" :> Field(PyStr(T3), 2) }

\* invoices that vary in the vendor name
MatchInvoices ==
    { Extraction("invoice", v @@ ("payment_terms" :> Field(PyStr(T1), 1))) : v \in VendorFields }

\* invoices that vary in the payment terms
TermInvoices ==
    { Extraction("invoice", ("vendor_name" :> Field(PyStr(V), 1)) @@ t) : t \in InvoiceTermsFields }

\* documents that vary in what the Matcher looks at
MatchDocs ==
    { None,
      EmptyDict,
      PyDict([doc_type |-> PyStr(<<"contract">>)]),
      Extraction("purchase_order", "party_a" :> Field(PyStr(PM), 2)),
      Extraction("contract", "party_a" :> Field(PyStr(PN), 2)),
      Extraction("contract", ("party_a" :> Field(PyStr(PM), 2)) @@ ("party_b" :> Field(PyStr(PN), 2))
                                 @@ ("payment_terms" :> Field(PyStr(T3), 2))),
      Extraction("contract", ("party_a" :> Field(PyStr(PN), 2)) @@ ("party_b" :> Field(PyStr(PM2), 2))
                                 @@ ("payment_terms" :> Field(PyStr(T2), 2))) }

\* contracts of the vendor that vary in the payment terms
TermContracts ==
    { Extraction("contract", ("party_b" :> Field(PyStr(PM2), 2)) @@ t) : t \in ContractTermsFields }

MaxDocs == 2

FirstIds == {0, 1}

\* the store gives consecutive identifiers in iteration order
WithIds(results, first) ==
    [i \in 1..Len(results) |->
        [t |-> "Document", id |-> first + i - 1, extraction_result |-> results[i]]]

SeqsUpTo(S, n) == UNION { [1..k -> S] : k \in 0..n }

MatchStores ==
    { WithIds(ds \o <<inv>>, first) :
        ds \in SeqsUpTo(MatchDocs, MaxDocs), inv \in MatchInvoices, first \in FirstIds }

TermStores ==
    { WithIds(docs, first) :
        docs \in UNION { {<<c, inv>>, <<inv, c>>} : c \in TermContracts, inv \in TermInvoices },
        first \in FirstIds }

Stores == MatchStores \cup TermStores

RunIds == 0..(MaxDocs + 2)

---------------------------------------------------------------------------
(* Natural-language comparator: what chain.invoke can give back.  The      *)
(* content of a response is a sequence of tokens: code fences, whitespace, *)
(* free text, and JSON texts (carried as the value json.loads gives them). *)
(* "fence_json" is three backticks followed by json, "fence" three         *)
(* backticks.                                                              *)

Tok(k) == [k |-> k, v |-> None]

JsonTok(v) == [k |-> "json", v |-> v]

E1 == <<"3", "0", " ", "v", "s", " ", "1", "5">>

Judgment(c, e) == PyDict([consistent |-> PyBool(c), explanation |-> PyStr(e)])

Contents ==
    { <<JsonTok(Judgment(TRUE, <<>>))>>,
      <<JsonTok(Judgment(FALSE, E1))>>,
      <<Tok("fence_json"), Tok("ws"), JsonTok(Judgment(FALSE, E1)), Tok("ws"), Tok("fence")>>,
      <<Tok("fence"), Tok("ws"), JsonTok(Judgment(TRUE, E1)), Tok("ws"), Tok("fence")>>,
      <<Tok("text")>>,
      <<Tok("text"), Tok("fence_json"), JsonTok(Judgment(FALSE, E1)), Tok("fence")>>,
      <<JsonTok(PyDict([consistent |-> PyBool(FALSE)]))>>,
      <<JsonTok(PyDict([explanation |-> PyStr(E1)]))>>,
      <<JsonTok(PyBool(FALSE))>> }

NoCall == [kind |-> "none", content |-> <<>>]

Raises == [kind |-> "raise", content |-> <<>>]

Content(c) == [kind |-> "content", content |-> c]

\* chain.invoke either raises or returns a message with some content
ComparatorResults == {Raises} \cup { Content(c) : c \in Contents }

\* seeded fault: the json fence is not removed first
ReplaceFenceJson_Skip(content) == content

\* content.replace of the json fence (three backticks and "json") by ""
ReplaceFenceJson(content) == SelectSeq(content, LAMBDA tk : tk.k # "fence_json")

\* content.replace of three backticks by "": a remaining json fence loses its
\* backticks only
ReplaceFence(content) ==
    LET kept == SelectSeq(content, LAMBDA tk : tk.k # "fence")
    IN  [i \in 1..Len(kept) |-> IF kept[i].k = "fence_json" THEN Tok("text") ELSE kept[i]]

RECURSIVE SkipWs(_)
SkipWs(content) ==
    IF content # <<>> /\ Head(content).k = "ws" THEN SkipWs(Tail(content)) ELSE content

\* json.loads: one JSON text, whitespace allowed around it; anything else raises
JsonLoads(content) ==
    LET body == SkipWs(content)
    IN  IF body # <<>> /\ Head(body).k = "json" /\ SkipWs(Tail(body)) = <<>>
        THEN [ok |-> TRUE, v |-> Head(body).v]
        ELSE [ok |-> FALSE, v |-> None]

\* parsed[k]: TypeError unless parsed is a dict, KeyError when k is missing
Subscript(parsed, k) ==
    IF parsed.t = "dict" /\ k \in DOMAIN parsed.d
    THEN [ok |-> TRUE, v |-> parsed.d[k]]
    ELSE [ok |-> FALSE, v |-> None]

---------------------------------------------------------------------------
(* Findings *)

MissingContractFinding ==
    [finding_type |-> "MISSING_PO",
     severity |-> "HIGH",
     description |-> <<"No matching contract found for this vendor.">>,
     recommendation |-> PyStr(<<"Upload a contract for this vendor.">>),
     evidence |-> None]

\* seeded fault: the two sides of the evidence are swapped
TermEvidence_Swapped(st, cont_terms_node) ==
    PyDict([invoice_evidence |-> cont_terms_node,
            contract_evidence |-> Get(st.invoice_data, "payment_terms", None)])

\* evidence={"invoice_evidence": ..., "contract_evidence": ...}
TermEvidence(st, cont_terms_node) ==
    PyDict([invoice_evidence |-> Get(st.invoice_data, "payment_terms", None),
          contract_evidence |-> cont_terms_node])

LlmMismatchFinding(st, inv_terms_val, count_terms_val, cont_terms_node, explanation) ==
    [finding_type |-> "TERM_MISMATCH",
     severity |-> "HIGH",
     description |-> <<"Invoice terms '">> \o inv_terms_val.s
                        \o <<"' conflict with Contract '">> \o count_terms_val.s
                        \o <<"'. ">> \o explanation.s,
     recommendation |-> None,
     evidence |-> TermEvidence(st, cont_terms_node)]

MockMismatchFinding(st, inv_terms_val, count_terms_val, cont_terms_node) ==
    [finding_type |-> "TERM_MISMATCH",
     severity |-> "HIGH",
     description |-> <<"Invoice terms '">> \o inv_terms_val.s
                        \o <<"' do not match Contract '">> \o count_terms_val.s
                        \o <<"'. (Mock Comparison)">>,
     recommendation |-> None,
     evidence |-> TermEvidence(st, cont_terms_node)]

---------------------------------------------------------------------------
(* ComparisonGraph *)

\* __init__: the comparator is chosen from the API keys of the environment
ChooseLlm(mistral_key, openai_key) ==
    IF mistral_key THEN [t |-> "ChatMistralAI"]
    ELSE IF openai_key THEN [t |-> "ChatOpenAI"]
    ELSE None

NoState ==
    [invoice_id |-> None, invoice_data |-> None, contract_id |-> None,
     contract_data |-> None, findings |-> <<>>]

NoPrev == [arg |-> -1, pc |-> "idle", findings |-> <<>>, error |-> None, response |-> NoCall]

Init ==
    /\ store \in Stores
    /\ \E mistral_key \in BOOLEAN, openai_key \in BOOLEAN :
           llm = ChooseLlm(mistral_key, openai_key)
    /\ pc = "idle"
    /\ arg = -1
    /\ state = NoState
    /\ response = NoCall
    /\ error = None
    /\ prev = NoPrev

\* seeded fault: the filter on the identifier is lost
QueryFirstById_NoFilter(id) == IF store = <<>> THEN None ELSE Head(store)

\* db.query(Document).filter(Document.id == invoice_id).first()
QueryFirstById(id) ==
    LET hits == SelectSeq(store, LAMBDA d : d.id = id)
    IN  IF hits = <<>> THEN None ELSE Head(hits)

InitialState(invoice_id, doc) ==
    [invoice_id |-> PyInt(invoice_id),
     invoice_data |-> Get(doc.extraction_result, "data", EmptyDict),
     contract_id |-> None,
     contract_data |-> None,
     findings |-> <<>>]

InvoiceNotFound == [t |-> "ValueError", msg |-> "Invoice not found or not extracted"]

\* what the previous call of run gave its caller
Outcome == [arg |-> arg, pc |-> pc, findings |-> state.findings, error |-> error,
            response |-> response]

\* run(invoice_id), up to the start of the graph
Run(invoice_id) ==
    /\ pc \in {"idle", "done", "raised"}
    /\ prev' = IF pc = "idle" THEN prev ELSE Outcome
    /\ arg' = invoice_id
    /\ response' = NoCall
    /\ LET doc == QueryFirstById(invoice_id)
       IN  IF ~Truthy(doc) \/ ~Truthy(doc.extraction_result)
           THEN /\ pc' = "raised"
                /\ error' = InvoiceNotFound
                /\ state' = NoState
           ELSE /\ pc' = "retrieve"
                /\ error' = None
                /\ state' = InitialState(invoice_id, doc)
    /\ UNCHANGED <<store, llm>>

\* db.query(Document).filter(Document.extraction_result.isnot(None)).all()
QueryExtracted == SelectSeq(store, LAMBDA d : d.extraction_result # None)

\* the "continue" test of the scan
Skipped(doc) ==
    \/ ~Truthy(doc.extraction_result)
    \/ Get(doc.extraction_result, "doc_type", None) # PyStr(<<"contract">>)

\* the vendor test of the scan
NameMatches(doc, vendor_name) ==
    LET data    == Get(doc.extraction_result, "data", EmptyDict)
        party_a == Get(Get(data, "party_a", EmptyDict), "value", PyStr(<<>>))
        party_b == Get(Get(data, "party_b", EmptyDict), "value", PyStr(<<>>))
    IN  \/ IsSubstring(Lower(vendor_name.s), Lower(party_a.s))
        \/ IsSubstring(Lower(vendor_name.s), Lower(party_b.s))

\* seeded fault: the scan has no break, the last match wins
BestMatch_Last(contracts, vendor_name) ==
    LET hits == { i \in 1..Len(contracts) :
                    ~Skipped(contracts[i]) /\ NameMatches(contracts[i], vendor_name) }
    IN  IF hits = {} THEN None
        ELSE contracts[CHOOSE i \in hits : \A j \in hits : j <= i]

\* the scan: the first document that is not skipped and matches, or None
BestMatch(contracts, vendor_name) ==
    LET hits == { i \in 1..Len(contracts) :
                    ~Skipped(contracts[i]) /\ NameMatches(contracts[i], vendor_name) }
    IN  IF hits = {} THEN None
        ELSE contracts[CHOOSE i \in hits : \A j \in hits : i <= j]

\* node "retrieve"
RetrieveContract ==
    /\ pc = "retrieve"
    /\ LET vendor_name == Get(Get(state.invoice_data, "vendor_name", EmptyDict), "value", None)
       IN  IF ~Truthy(vendor_name)
           THEN state' = [state EXCEPT !.contract_id = None]
           ELSE LET best_match == BestMatch(QueryExtracted, vendor_name)
                IN  IF Truthy(best_match)
                    THEN state' = [state EXCEPT
                             !.contract_id = PyInt(best_match.id),
                             !.contract_data = Get(best_match.extraction_result, "data", None)]
                    ELSE state' = [state EXCEPT !.contract_id = None]
    /\ pc' = "compare"
    /\ UNCHANGED <<store, llm, arg, response, error, prev>>

\* seeded fault: the findings list outlives the call
NewFindings_Shared == prev.findings

\* findings = []
NewFindings == <<>>

\* the test "not state['contract_id']", negated
ContractPresent(st) == Truthy(st.contract_id)

\* the body of the try block: the findings it appends; any exception raised in
\* it (json.loads, parsed["consistent"], parsed["explanation"]) is caught
LlmFindings(st, inv_terms_val, count_terms_val, cont_terms_node, content) ==
    LET cleaned == ReplaceFence(ReplaceFenceJson(content))
        parsed  == JsonLoads(cleaned)
    IN  IF ~parsed.ok THEN <<>>
        ELSE LET consistent == Subscript(parsed.v, "consistent")
             IN  IF ~consistent.ok THEN <<>>
                 ELSE IF Truthy(consistent.v) THEN <<>>
                 ELSE LET explanation == Subscript(parsed.v, "explanation")
                      IN  IF ~explanation.ok THEN <<>>
                          ELSE << LlmMismatchFinding(st, inv_terms_val, count_terms_val,
                                                     cont_terms_node, explanation.v) >>

\* str(x).lower().strip()
Normalize(val) == Strip(Lower(val.s))

\* the fallback branch: the findings it appends
MockFindings(st, inv_terms_val, count_terms_val, cont_terms_node) ==
    IF Normalize(inv_terms_val) # Normalize(count_terms_val)
    THEN << MockMismatchFinding(st, inv_terms_val, count_terms_val, cont_terms_node) >>
    ELSE <<>>

\* what chain.invoke raises when the call to the remote model fails
ComparatorError == [t |-> "Exception", msg |-> "chain.invoke failed"]

\* node "compare"
CompareTerms ==
    /\ pc = "compare"
    /\ IF ~ContractPresent(state)
       THEN /\ state' = [state EXCEPT !.findings = NewFindings \o <<MissingContractFinding>>]
            /\ pc' = "done"
            /\ UNCHANGED <<response, error>>
       ELSE LET cont_terms_node == Get(state.contract_data, "payment_terms", EmptyDict)
                count_terms_val == Get(cont_terms_node, "value", None)
                inv_terms_val   == Get(Get(state.invoice_data, "payment_terms", EmptyDict),
                                       "value", None)
            IN  IF Truthy(inv_terms_val) /\ Truthy(count_terms_val) /\ Truthy(llm)
                THEN \E res \in ComparatorResults :
                        /\ response' = res
                        /\ IF res.kind = "raise"
                           THEN /\ pc' = "raised"
                                /\ error' = ComparatorError
                                /\ state' = state
                           ELSE /\ pc' = "done"
                                /\ error' = error
                                /\ state' = [state EXCEPT !.findings =
                                       NewFindings \o LlmFindings(state, inv_terms_val,
                                           count_terms_val, cont_terms_node, res.content)]
                ELSE IF ~Truthy(llm) /\ Truthy(inv_terms_val) /\ Truthy(count_terms_val)
                THEN /\ state' = [state EXCEPT !.findings =
                            NewFindings \o MockFindings(state, inv_terms_val,
                                count_terms_val, cont_terms_node)]
                     /\ pc' = "done"
                     /\ UNCHANGED <<response, error>>
                ELSE /\ state' = [state EXCEPT !.findings = NewFindings]
                     /\ pc' = "done"
                     /\ UNCHANGED <<response, error>>
    /\ UNCHANGED <<store, llm, arg, prev>>

Next ==
    \/ \E invoice_id \in RunIds : Run(invoice_id)
    \/ RetrieveContract
    \/ CompareTerms

Spec == Init /\ [][Next]_vars

---------------------------------------------------------------------------
(* Vocabulary of the properties.  These definitions read the store and     *)
(* the run's state directly and do not use the operators of the pipeline.  *)

\* run has loaded the invoice
Started == state # NoState

\* the Matcher has run
Retrieved == Started /\ pc \in {"compare", "done", "raised"}

\* the call of run is over
Finished == pc \in {"done", "raised"}

FieldOf(data, name) == IF name \in DOMAIN data.d THEN data.d[name] ELSE None

ValueOf(data, name) ==
    LET f == FieldOf(data, name)
    IN  IF f # None /\ "value" \in DOMAIN f.d THEN f.d.value ELSE None

\* present and non-empty
Present(v) == v # None /\ v.s # <<>>

DocData(d) ==
    IF d.extraction_result # None /\ "data" \in DOMAIN d.extraction_result.d
    THEN d.extraction_result.d.data
    ELSE EmptyDict

TaggedContract(d) ==
    /\ d.extraction_result # None
    /\ "doc_type" \in DOMAIN d.extraction_result.d
    /\ d.extraction_result.d.doc_type = PyStr(<<"contract">>)

CasePairs == {<<"A", "a">>, <<"B", "b">>, <<"N", "n">>}

SameLetter(c, d) == c = d \/ <<c, d>> \in CasePairs \/ <<d, c>> \in CasePairs

ContainsSeq(hay, needle) ==
    \E off \in 0..(Len(hay) - Len(needle)) :
        \A k \in 1..Len(needle) : hay[off + k] = needle[k]

ContainsIgnoringCase(hay, needle) ==
    \E off \in 0..(Len(hay) - Len(needle)) :
        \A k \in 1..Len(needle) : SameLetter(hay[off + k], needle[k])

PartyContains(d, party, v) ==
    LET p == ValueOf(DocData(d), party)
    IN  p # None /\ ContainsIgnoringCase(p.s, v)

Candidate(d, v) ==
    TaggedContract(d) /\ (PartyContains(d, "party_a", v) \/ PartyContains(d, "party_b", v))

Candidates(v) == { i \in 1..Len(store) : Candidate(store[i], v) }

VendorName == ValueOf(state.invoice_data, "vendor_name")

InvoiceTerms == ValueOf(state.invoice_data, "payment_terms")

ContractTerms == ValueOf(state.contract_data, "payment_terms")

Matched == Retrieved /\ state.contract_id # None

StoredDoc(id) == store[CHOOSE i \in 1..Len(store) : store[i].id = id]

StoredTerms(id) == FieldOf(DocData(StoredDoc(id)), "payment_terms")

\* s without its leading and trailing blanks
Core(s) ==
    LET ink == { i \in 1..Len(s) : s[i] # " " }
    IN  IF ink = {} THEN <<>>
        ELSE SubSeq(s, CHOOSE i \in ink : \A j \in ink : i <= j,
                       CHOOSE i \in ink : \A j \in ink : j <= i)

EqualNormalized(a, b) ==
    /\ Len(Core(a)) = Len(Core(b))
    /\ \A k \in 1..Len(Core(a)) : SameLetter(Core(a)[k], Core(b)[k])

IsTermMismatch(f) == f.finding_type = "TERM_MISMATCH" /\ f.severity = "HIGH"

IsMissingContractNotice(f) ==
    f.description = <<"No matching contract found for this vendor.">>

JsonTexts(content) == { i \in 1..Len(content) : content[i].k = "json" }

RawJson(content) == Len(content) = 1 /\ content[1].k = "json"

FencedJson(content) ==
    /\ Len(content) >= 3
    /\ content[1].k \in {"fence_json", "fence"}
    /\ content[Len(content)].k = "fence"
    /\ Cardinality(JsonTexts(content)) = 1
    /\ \A i \in 2..(Len(content) - 1) : content[i].k \in {"ws", "json"}

TheJson(content) == content[CHOOSE i \in JsonTexts(content) : TRUE].v

IsJudgment(j) ==
    /\ j.t = "dict"
    /\ {"consistent", "explanation"} \subseteq DOMAIN j.d
    /\ j.d.consistent.t = "bool"
    /\ j.d.explanation.t = "str"

\* raw JSON or JSON fenced in a code block, holding {consistent, explanation}
WellFormed(content) ==
    (RawJson(content) \/ FencedJson(content)) /\ IsJudgment(TheJson(content))

NonJson(content) == JsonTexts(content) = {}

Unextracted(id) ==
    \A i \in 1..Len(store) : store[i].id = id => store[i].extraction_result = None

\* two finished calls of run on the same invoice, one after the other
SameCallTwice == Finished /\ prev.pc \in {"done", "raised"} /\ prev.arg = arg

---------------------------------------------------------------------------
(* Properties *)

C2_OneMissingContractFinding ==
    (pc = "done" /\ state.contract_id = None) =>
        /\ Len(state.findings) = 1
        /\ state.findings[1].finding_type = "MISSING_CONTRACT"
        /\ state.findings[1].severity = "HIGH"

\* C3: a failure of the comparator invocation or of parsing its response is
\* caught, produces no finding, and run returns normally.
C3_FailOpen ==
    (\/ response.kind = "raise"
     \/ response.kind = "content" /\ ~WellFormed(response.content)) =>
        pc = "done" /\ state.findings = <<>> /\ error = None

\* C4: with a contract matched, no comparator configured and both payment
\* terms present and non-empty, compare_terms emits exactly one TERM_MISMATCH
\* finding of severity HIGH if the values differ after trimming and
\* lower-casing, and no finding if they are equal then.
C4_FallbackIff ==
    (pc = "done" /\ Matched /\ llm = None /\ Present(InvoiceTerms) /\ Present(ContractTerms)) =>
        IF EqualNormalized(InvoiceTerms.s, ContractTerms.s)
        THEN state.findings = <<>>
        ELSE Len(state.findings) = 1 /\ IsTermMismatch(state.findings[1])

\* C5: on the comparator path a response, raw or fenced, with consistent =
\* true yields no finding; with consistent = false it yields exactly one
\* TERM_MISMATCH finding of severity HIGH whose description contains the
\* explanation; a non-JSON response yields no finding and no error.
C5_ComparatorResponse ==
    (response.kind = "content") =>
        /\ WellFormed(response.content) =>
              /\ pc = "done"
              /\ IF TheJson(response.content).d.consistent.b
                 THEN state.findings = <<>>
                 ELSE /\ Len(state.findings) = 1
                      /\ IsTermMismatch(state.findings[1])
                      /\ ContainsSeq(state.findings[1].description,
                                     TheJson(response.content).d.explanation.s)
        /\ NonJson(response.content) =>
              pc = "done" /\ state.findings = <<>> /\ error = None

\* C5 witness: a fenced response with consistent = false gave its finding.
C5_Witness ==
    /\ response.kind = "content"
    /\ FencedJson(response.content)
    /\ WellFormed(response.content)
    /\ ~TheJson(response.content).d.consistent.b
    /\ TheJson(response.content).d.explanation.s # <<>>
    /\ Len(state.findings) = 1

\* C6 as stated: run on a document that does not exist or has no extraction
\* result fails with NotFoundError before any stage runs: no findings, no
\* contract bound.
C6_NotFoundError ==
    (arg \in RunIds /\ Unextracted(arg)) =>
        /\ pc = "raised"
        /\ error.t = "NotFoundError"
        /\ state = NoState
        /\ response = NoCall

\* C6 as amended: the error raised is a ValueError.
C6_ValueError ==
    (arg \in RunIds /\ Unextracted(arg)) =>
        /\ pc = "raised"
        /\ error.t = "ValueError"
        /\ state = NoState
        /\ response = NoCall

\* C6 witness: the document exists and has no extraction result.
C6_Witness ==
    /\ arg \in RunIds
    /\ Unextracted(arg)
    /\ \E i \in 1..Len(store) : store[i].id = arg
    /\ pc = "raised"

C8_EvidenceVerbatim ==
    \A i \in 1..Len(state.findings) :
        state.findings[i].finding_type = "TERM_MISMATCH" =>
            /\ state.findings[i].severity = "HIGH"
            /\ state.findings[i].evidence =
                  PyDict([invoice_evidence  |-> StoredTerms(arg),
                          contract_evidence |-> StoredTerms(state.contract_id.n)])

\* C8 witness: the fallback comparator reported a mismatch.
C8_Witness ==
    /\ pc = "done"
    /\ llm = None
    /\ \E i \in 1..Len(state.findings) : state.findings[i].finding_type = "TERM_MISMATCH"

\* C9: with a contract matched and the payment terms of the invoice or of the
\* contract absent or empty, the comparator is not invoked and run returns an
\* empty findings sequence without an error.
C9_SilentSkip ==
    (Finished /\ Matched /\ (~Present(InvoiceTerms) \/ ~Present(ContractTerms))) =>
        pc = "done" /\ state.findings = <<>> /\ response = NoCall

\* C10: when the Matcher selected a contract, whatever its identifier, run's
\* findings hold no missing-contract finding.
C10_MatchedMeansPresent ==
    (pc = "done" /\ Matched) =>
        \A i \in 1..Len(state.findings) : ~IsMissingContractNotice(state.findings[i])

---------------------------------------------------------------------------
(* Supporting facts: how far the statements above that fail do hold.       *)

\* the matched contract's identifier is one that Python takes as true
NonzeroId == state.contract_id.n # 0

\* C2, with the kind the code gives: no match, exactly one MISSING_PO finding
\* of severity HIGH.
C2_OneMissingPoFinding ==
    (pc = "done" /\ state.contract_id = None) =>
        /\ Len(state.findings) = 1
        /\ state.findings[1].finding_type = "MISSING_PO"
        /\ state.findings[1].severity = "HIGH"
        /\ IsMissingContractNotice(state.findings[1])

\* C3, for the failures inside the try block: a response that cannot be
\* parsed into a judgment gives no finding and no error.
C3_ParseFailOpen ==
    (response.kind = "content" /\ ~WellFormed(response.content)) =>
        pc = "done" /\ state.findings = <<>> /\ error = None

\* C4, for a matched contract whose identifier is not 0.
C4_FallbackIffNonzeroId ==
    (pc = "done" /\ Matched /\ NonzeroId /\ llm = None
        /\ Present(InvoiceTerms) /\ Present(ContractTerms)) =>
        IF EqualNormalized(InvoiceTerms.s, ContractTerms.s)
        THEN state.findings = <<>>
        ELSE Len(state.findings) = 1 /\ IsTermMismatch(state.findings[1])

\* C7: no step of run writes to the store.
C7_StoreNeverWritten == [][store' = store]_vars

\* C9, for a matched contract whose identifier is not 0.
C9_SilentSkipNonzeroId ==
    (Finished /\ Matched /\ NonzeroId
        /\ (~Present(InvoiceTerms) \/ ~Present(ContractTerms))) =>
        pc = "done" /\ state.findings = <<>> /\ response = NoCall

\* C10, for a matched contract whose identifier is not 0; with identifier 0
\* the missing-contract finding is the whole result.
C10_MissingOnlyForZeroId ==
    (pc = "done" /\ Matched) =>
        IF NonzeroId
        THEN \A i \in 1..Len(state.findings) : ~IsMissingContractNotice(state.findings[i])
        ELSE state.findings = <<MissingContractFinding>>

====
